---- MODULE Spec2Model ----
(***************************************************************************)
(* Session routing and hand-off state machine of the e-commerce chatbot:  *)
(* Orchestrator (agents/orchestrator.py), OrderAgent                       *)
(* (agents/order_agent.py) and RAGAgent (agents/rag_agent.py).             *)
(*                                                                         *)
(* The language model behind each agent is an opaque collaborator: which   *)
(* tools it calls and what structured response it gives are chosen         *)
(* nondeterministically, within the limits the middleware enforces.        *)
(* One turn (one call of Orchestrator.invoke) runs from Invoke to the      *)
(* action that sets resp; the tool calls of the agents are the steps in    *)
(* between, taken one at a time. The RAG agent's tools only read the       *)
(* catalog, so its whole run is one step.                                  *)
(***************************************************************************)
EXTENDS Integers, Sequences, FiniteSets, TLC

VARIABLES
    state,          \* Orchestrator._state
    cart,           \* Orchestrator._cart, shared with OrderAgent.cart
    orders,         \* rows persisted by OrderDatabase.create_order
    pc,             \* "idle" | "route" (self.agent running) | "order" (order_agent.agent running)
    ctx,            \* caller of the running order agent: "direct" | "tool" | "none"
    query,          \* user_query of the current (or last) turn
    req,            \* user_query argument of the running OrderAgent.invoke
    turnState,      \* _state when Orchestrator.invoke was called
    routed,         \* self.agent.invoke (intent resolution) was called this turn
    modelCalls,     \* model calls of the routing agent this turn
    nTools,         \* tool calls of the running order agent
    nCreate,        \* create_order calls of the running order agent
    toolOut,        \* string returned by the routing agent's last tool call
    calls,          \* handler invocations of this turn, in order
    resp,           \* what Orchestrator.invoke gave the caller
    confirmShown,   \* an earlier turn ended with OrderAgent status "confirming"
    chat_history,   \* the caller's list passed as chat_history, as it is now
    _chat_history,  \* Orchestrator._chat_history
    _in_order_mode, \* Orchestrator._in_order_mode, an attribute only reset() sets
    given,          \* observed: the chat_history argument as it was when passed
    heap,           \* two sessions: the cart lists allocated, by reference
    sessions,       \* two sessions: each Orchestrator's fields and its position
    lastTool,       \* observed: the order agent's last tool call, the cart before it, its string
    turnCreates,    \* observed: create_order calls executed so far in the running turn
    turnStart       \* observed: the cart and the number of orders when the turn began

vars == <<state, cart, orders, pc, ctx, query, req, turnState, routed,
          modelCalls, nTools, nCreate, toolOut, calls, resp, confirmShown,
          chat_history, _chat_history, _in_order_mode, given, heap, sessions,
          lastTool, turnCreates, turnStart>>

-----------------------------------------------------------------------------
(* Bounds of the model *)

MaxOrders == 1
MaxOrderTools == 2

(* Limits set by the program *)

RouteRunLimit == 3
OrderRunLimit == 10
CreateOrderRunLimit == 1
ViewCartRunLimit == 2
AddToCartRunLimit == 3

-----------------------------------------------------------------------------
(* Values *)

INTENT == "intent"
CHECKOUT == "checkout"

None == "None"

Statuses == {"collecting_info", "confirming", "completed", "failed"}
Transfers == {None, "rag", "order"}
AgentNames == {"rag", "order", "orchestrator"}
\* agent_used is a str field: the routing model's structured output may
\* carry a string that is none of the documented three.
LlmAgentNames == AgentNames \cup {"other"}

\* Kinds of user turn; the program never inspects the text.
Queries == {"q_address", "q_yes"}
\* Text the routing model synthesises as a tool's `request` argument.
LlmRequest == "q_llm"

\* chat_history arguments of Orchestrator.invoke: none given, an empty
\* list, a list of one earlier message.
NoHistory == [none |-> TRUE, items |-> <<>>]
History(items) == [none |-> FALSE, items |-> items]
EmptyHistory == History(<<>>)
Histories == {NoHistory, EmptyHistory, History(<<"m_earlier">>)}

\* Sample catalog (data/products.json is loaded at run time).
Catalog ==
    [p \in {"TECH-007", "TECH-009", "SPORT-003"} |->
        CASE p = "TECH-007" ->
                [product_id |-> p, name |-> "n_TECH-007", price |-> 3, stock_status |-> "in_stock"]
          [] p = "TECH-009" ->
                [product_id |-> p, name |-> "n_TECH-009", price |-> 7, stock_status |-> "low_stock"]
          [] OTHER ->
                [product_id |-> p, name |-> "n_SPORT-003", price |-> 2, stock_status |-> "out_of_stock"]]

\* Arguments the order model gives add_to_cart and remove_from_cart: an
\* available product, one out of stock, one not in the catalog.
ProductIds == {"TECH-007", "SPORT-003", "X-404"}
Quantities == {1}

\* The wider arguments of the cart specification: a second available
\* product, and quantities the tool's int parameter admits.
CartProductIds == ProductIds \cup {"TECH-009"}
CartQuantities == {0, 2}

\* ProductCatalog.get_product gives None for an unknown id.
NoProduct == [product_id |-> None]

get_product(p) == IF p \in DOMAIN Catalog THEN Catalog[p] ELSE NoProduct

is_available(p) ==
    LET product == get_product(p)
    IN  IF product = NoProduct THEN FALSE
        ELSE product.stock_status \in {"in_stock", "low_stock"}

-----------------------------------------------------------------------------
(* Cart tools of the order agent, as functions of the cart *)

\* Index of the first line holding product p, 0 when there is none.
IndexOf(c, p) ==
    IF \E i \in 1..Len(c) : c[i].product_id = p
    THEN CHOOSE i \in 1..Len(c) :
            /\ c[i].product_id = p
            /\ \A j \in 1..(i - 1) : c[j].product_id # p
    ELSE 0

\* Mutant: the new quantity is added to the line's quantity.
CartAfterAdd_sum(c, p, quantity) ==
    LET product == get_product(p)
        i == IndexOf(c, p)
    IN  IF product = NoProduct THEN c
        ELSE IF ~is_available(p) THEN c
        ELSE IF i # 0 THEN [c EXCEPT ![i].quantity = c[i].quantity + quantity]
        ELSE Append(c, [product_id |-> p, product_name |-> product.name,
                        quantity |-> quantity, unit_price |-> product.price])

\* Mutant: a line is appended whether or not the product has one.
CartAfterAdd_append(c, p, quantity) ==
    LET product == get_product(p)
    IN  IF product = NoProduct THEN c
        ELSE IF ~is_available(p) THEN c
        ELSE Append(c, [product_id |-> p, product_name |-> product.name,
                        quantity |-> quantity, unit_price |-> product.price])

\* Mutant: no availability check.
CartAfterAdd_unchecked(c, p, quantity) ==
    LET product == get_product(p)
        i == IndexOf(c, p)
    IN  IF product = NoProduct THEN c
        ELSE IF i # 0 THEN [c EXCEPT ![i].quantity = quantity]
        ELSE Append(c, [product_id |-> p, product_name |-> product.name,
                        quantity |-> quantity, unit_price |-> product.price])

CartAfterAdd(c, p, quantity) ==
    LET product == get_product(p)
        i == IndexOf(c, p)
    IN  IF product = NoProduct THEN c
        ELSE IF ~is_available(p) THEN c
        ELSE IF i # 0 THEN [c EXCEPT ![i].quantity = quantity]
        ELSE Append(c, [product_id |-> p, product_name |-> product.name,
                        quantity |-> quantity, unit_price |-> product.price])

\* Mutant: cart.pop() in place of cart.pop(i).
CartAfterRemove_last(c, p) ==
    LET i == IndexOf(c, p)
    IN  IF i = 0 THEN c
        ELSE SubSeq(c, 1, Len(c) - 1)

CartAfterRemove(c, p) ==
    LET i == IndexOf(c, p)
    IN  IF i = 0 THEN c
        ELSE SubSeq(c, 1, i - 1) \o SubSeq(c, i + 1, Len(c))

\* The strings the cart tools return, by kind and the numbers they show.
add_to_cart_out(c, p, quantity) ==
    LET product == get_product(p)
    IN  IF product = NoProduct THEN [kind |-> "not_found"]
        ELSE IF ~is_available(p) THEN [kind |-> "out_of_stock"]
        ELSE IF IndexOf(c, p) # 0
        THEN [kind |-> "updated", subtotal |-> product.price * quantity]
        ELSE [kind |-> "added", subtotal |-> product.price * quantity]

remove_from_cart_out(c, p) ==
    IF IndexOf(c, p) # 0 THEN [kind |-> "removed"] ELSE [kind |-> "not_in_cart"]

\* The loop of view_cart: total += quantity * unit_price, line by line.
RECURSIVE ViewTotal(_, _, _)
ViewTotal(c, i, total) ==
    IF i > Len(c) THEN total
    ELSE ViewTotal(c, i + 1, total + c[i].quantity * c[i].unit_price)

\* Mutant: total = subtotal in place of total += subtotal.
view_cart_out_last(c) ==
    IF c = <<>> THEN [kind |-> "cart_empty"]
    ELSE [kind |-> "cart", lines |-> Len(c),
          total |-> c[Len(c)].quantity * c[Len(c)].unit_price]

view_cart_out(c) ==
    IF c = <<>> THEN [kind |-> "cart_empty"]
    ELSE [kind |-> "cart", lines |-> Len(c), total |-> ViewTotal(c, 1, 0)]

RECURSIVE SumSubtotals(_)
SumSubtotals(items) ==
    IF items = <<>> THEN 0
    ELSE items[1].quantity * items[1].unit_price + SumSubtotals(Tail(items))

\* Mutant: every order item is for one unit.
OrderItemsOf_unit(c) ==
    [i \in 1..Len(c) |->
        [product_id |-> c[i].product_id,
         product_name |-> get_product(c[i].product_id).name,
         quantity |-> 1,
         unit_price |-> get_product(c[i].product_id).price]]

\* The order_items create_order builds: name and price are read from the
\* catalog again, the quantity from the cart.
OrderItemsOf(c) ==
    [i \in 1..Len(c) |->
        [product_id |-> c[i].product_id,
         product_name |-> get_product(c[i].product_id).name,
         quantity |-> c[i].quantity,
         unit_price |-> get_product(c[i].product_id).price]]

\* Mutant: create_order without its validation.
CartOrderable_any(c) == TRUE

\* create_order passes its validation: the cart is not empty and every line's
\* product is in the catalog and available.
CartOrderable(c) ==
    /\ c # <<>>
    /\ \A i \in 1..Len(c) :
          /\ get_product(c[i].product_id) # NoProduct
          /\ is_available(c[i].product_id)

\* The row OrderDatabase.create_order commits.
OrderRow(items) == [items |-> items, total_amount |-> SumSubtotals(items)]

\* Where OrderDatabase.create_order may fail: in building the order, in
\* session.add or in session.commit; or after the commit, in
\* session.refresh or in loading order.items.
DbFaults == {"none", "before_commit", "after_commit"}

\* OrderDatabase.create_order on the committed rows: the order and its
\* items are written by the one commit; any exception is followed by
\* session.rollback(), which undoes nothing once the commit is done, and is
\* raised again.
OrderDatabase_create_order(rows, items, fault) ==
    CASE fault = "before_commit" -> [orders |-> rows, raised |-> TRUE]
      [] fault = "after_commit" -> [orders |-> Append(rows, OrderRow(items)), raised |-> TRUE]
      [] OTHER -> [orders |-> Append(rows, OrderRow(items)), raised |-> FALSE]

-----------------------------------------------------------------------------
(* Python lists of messages. A list is an object: `id` tells the caller's   *)
(* list ("caller") from the list Orchestrator._chat_history holds ("own")   *)
(* and from a list just made ("new"), so that an append through one name    *)
(* is seen through every name of the same object. `none` marks None in the  *)
(* place of a list.                                                         *)

CallerList(h) == [id |-> "caller", none |-> h.none, items |-> h.items]
NewList == [id |-> "new", none |-> FALSE, items |-> <<>>]

\* Mutant: no copy is made, the name is bound to the same list.
copy_same(l) == l

\* list.copy()
copy(l) == [l EXCEPT !.id = "new"]

\* Truth value of a chat_history argument: None and [] are false.
Truthy(l) == ~l.none /\ l.items # <<>>

\* Mutant: chat_history.copy() whatever the argument is.
Orchestrator_history_unguarded(l) == copy(l)

\* `chat_history.copy() if chat_history else []` in Orchestrator.invoke.
Orchestrator_history(l) == IF Truthy(l) THEN copy(l) ELSE NewList

\* The same expression in OrderAgent.invoke and RAGAgent.invoke.
Messages(l) == IF Truthy(l) THEN copy(l) ELSE NewList

\* self._chat_history = l
Assigned(l) == IF l.id = "new" THEN [l EXCEPT !.id = "own"] ELSE l

\* messages.append(m): the caller's list and Orchestrator._chat_history
\* afterwards. Each changes when `messages` is that very list.
AfterAppend(caller, own, messages, m) ==
    [caller |-> IF messages.id = "caller"
                THEN [caller EXCEPT !.items = Append(@, m)]
                ELSE caller,
     own |-> IF messages.id = own.id THEN [own EXCEPT !.items = Append(@, m)] ELSE own]

-----------------------------------------------------------------------------
(* Messages: sequences of tokens, so that a prefix or an appended product  *)
(* list is visible.                                                        *)

OrderMsg == <<"m_order">>
OrderErrorMsg == <<"m_order_error">>
OrderClarifyMsg == <<"m_order_clarify">>
RagMsg == <<"m_rag">>
RagTimeoutMsg == <<"m_rag_timeout">>
RagErrorMsg == <<"m_rag_error">>
RagClarifyMsg == <<"m_rag_clarify">>
OrchErrorMsg == <<"m_orch_error">>
OrchClarifyMsg == <<"m_orch_clarify">>
LlmMsg == <<"m_llm">>
\* An order model's message that quotes the confirmation create_order
\* returned.
OrderPlacedMsg == <<"m_order", "Order placed successfully", "Order ID:">>
TransferPrefix == <<"Let me transfer you back to product search. ">>

\* r is a contiguous part of m.
Contains(m, r) ==
    \E k \in 0..(Len(m) - Len(r)) : SubSeq(m, k + 1, k + Len(r)) = r

_append_product_details(message, products) ==
    IF products = <<>> THEN message
    ELSE message \o <<"Products Found:">> \o products

-----------------------------------------------------------------------------
(* OrchestratorState *)

\* Mutant: the CHECKOUT test never succeeds.
is_checkout_mode_never(s) == FALSE

is_checkout_mode(s) == s = CHECKOUT

\* Mutant: a transfer request to "rag" does not leave CHECKOUT.
should_exit_terminal_only(order_status, transfer_to_agent) ==
    order_status \in {"completed", "failed"}

should_exit_checkout_mode(order_status, transfer_to_agent) ==
    IF order_status \in {"completed", "failed"} THEN TRUE
    ELSE IF transfer_to_agent = "rag" THEN TRUE
    ELSE FALSE

\* Mutant: _state is reset only on a terminal status.
StateAfterOrder_terminal_only(s, order_status, transfer_to_agent) ==
    IF order_status \in {"completed", "failed"} THEN INTENT ELSE s

\* _state after an OrderAgent result was read (Orchestrator.invoke and
\* manage_order run the same test).
StateAfterOrder(s, order_status, transfer_to_agent) ==
    IF should_exit_checkout_mode(order_status, transfer_to_agent) THEN INTENT ELSE s

-----------------------------------------------------------------------------
(* What the language-model agents can give back *)

\* Outcome of order_agent.agent.invoke: a structured OrderResponse, no
\* structured response, or an exception (timeout, tool or collaborator fault).
OrderOutcomes ==
    [kind : {"structured"}, status : Statuses, transfer : Transfers, message : {OrderMsg}]
    \cup {[kind |-> "none", status |-> None, transfer |-> None],
          [kind |-> "exception", status |-> None, transfer |-> None]}

\* Outcome of rag_agent.agent.invoke.
RagOutcomes ==
    [kind : {"structured"}, transfer : Transfers, products : {<<>>, <<"TECH-007">>}]
    \cup {[kind |-> k, transfer |-> None, products |-> <<>>] : k \in {"none", "timeout", "exception"}}

\* Outcome of the routing agent (Orchestrator.agent.invoke).
RouteOutcomes ==
    [kind : {"structured"}, agent_used : LlmAgentNames, verbatim : BOOLEAN]
    \cup {[kind |-> k, agent_used |-> None, verbatim |-> FALSE] : k \in {"none", "exception"}}

\* Mutant: OrderAgent.invoke without its except clause.
OrderAgent_invoke_uncaught(o) ==
    CASE o.kind = "exception" ->
            [raised |-> TRUE, message |-> <<>>, status |-> None, transfer |-> None]
      [] o.kind = "none" ->
            [raised |-> FALSE, message |-> OrderClarifyMsg, status |-> "collecting_info", transfer |-> None]
      [] OTHER ->
            [raised |-> FALSE, message |-> o.message, status |-> o.status, transfer |-> o.transfer]

\* OrderAgent.invoke from the agent's outcome on.
OrderAgent_invoke(o) ==
    CASE o.kind = "exception" ->
            [raised |-> FALSE, message |-> OrderErrorMsg, status |-> "failed", transfer |-> None]
      [] o.kind = "none" ->
            [raised |-> FALSE, message |-> OrderClarifyMsg, status |-> "collecting_info", transfer |-> None]
      [] OTHER ->
            [raised |-> FALSE, message |-> o.message, status |-> o.status, transfer |-> o.transfer]

\* RAGAgent.invoke from the agent's outcome on.
RAGAgent_invoke(o) ==
    CASE o.kind = "timeout" ->
            [raised |-> FALSE, message |-> RagTimeoutMsg, products |-> <<>>, transfer |-> None]
      [] o.kind = "exception" ->
            [raised |-> FALSE, message |-> RagErrorMsg, products |-> <<>>, transfer |-> None]
      [] o.kind = "none" ->
            [raised |-> FALSE, message |-> RagClarifyMsg, products |-> <<>>, transfer |-> None]
      [] OTHER ->
            [raised |-> FALSE, message |-> RagMsg, products |-> o.products, transfer |-> o.transfer]

\* A handler invocation: the user_query and the chat_history it was called
\* with, and what it returned.
CallOfOrder(q, h, r) ==
    [handler |-> "order", query |-> q, history |-> h, status |-> r.status,
     transfer |-> r.transfer, message |-> r.message]

CallOfRag(q, h, r) ==
    [handler |-> "rag", query |-> q, history |-> h, status |-> None,
     transfer |-> r.transfer, message |-> r.message]

\* Mutant: the hand-off passes text of the model's, not the user's turn.
HandoffCall_request(q, r) == CallOfRag(LlmRequest, <<>>, r)

\* rag_agent.invoke(user_query, chat_history=[]) of the CHECKOUT branch.
HandoffCall(q, r) == CallOfRag(q, <<>>, r)

\* Two chat sessions served by one process.
SessionIds == {1, 2}
NotConstructed == [pc |-> "unborn"]

NoResp == [kind |-> "none"]
NoTool == [name |-> "none"]
ToolCall(name, p, quantity, before, out) ==
    [name |-> name, product_id |-> p, quantity |-> quantity, before |-> before, out |-> out]
Raised == [kind |-> "raised"]
OrchestratorResponse(m, a) == [kind |-> "returned", message |-> m, agent_used |-> a]

-----------------------------------------------------------------------------
Init ==
    /\ state = INTENT
    /\ cart = <<>>
    /\ orders = <<>>
    /\ pc = "idle"
    /\ ctx = "none"
    /\ query = None
    /\ req = None
    /\ turnState = INTENT
    /\ routed = FALSE
    /\ modelCalls = 0
    /\ nTools = 0
    /\ nCreate = 0
    /\ toolOut = <<>>
    /\ calls = <<>>
    /\ resp = NoResp
    /\ confirmShown = FALSE
    /\ chat_history = NoHistory
    /\ _chat_history = Assigned(NewList)
    /\ _in_order_mode = None
    /\ given = NoHistory
    /\ heap = <<>>
    /\ sessions = [s \in SessionIds |-> NotConstructed]
    /\ lastTool = NoTool
    /\ turnCreates = 0
    /\ turnStart = [cart |-> <<>>, orders |-> 0]

-----------------------------------------------------------------------------
(* Orchestrator.invoke *)

TurnRunning == pc # "idle"
TurnEnded == pc = "idle" /\ resp # NoResp

\* Some call of the turn is an OrderAgent result with status "confirming".
ShowsSummary(cs) ==
    \E i \in 1..Len(cs) : cs[i].handler = "order" /\ cs[i].status = "confirming"

\* Orchestrator.invoke returns r (or raises): the turn-local values go out
\* of scope.
Return(r, cs) ==
    /\ resp' = r
    /\ calls' = cs
    /\ pc' = "idle"
    /\ ctx' = "none"
    /\ req' = None
    /\ modelCalls' = 0
    /\ nTools' = 0
    /\ nCreate' = 0
    /\ toolOut' = <<>>
    /\ confirmShown' = (confirmShown \/ ShowsSummary(cs))

\* Orchestrator.invoke(user_query, chat_history) up to the first agent's
\* run, as it acts on the Orchestrator: _chat_history is set from the
\* argument; in CHECKOUT the order agent is called at once, otherwise the
\* routing agent, each on a list of messages ending with user_query.
Orchestrator_invoke(q, h) ==
    /\ pc = "idle"
    /\ LET own == Assigned(Orchestrator_history(CallerList(h)))
           messages == IF is_checkout_mode(state) THEN Messages(own) ELSE copy(own)
       IN  _chat_history' = AfterAppend(h, own, messages, q).own
    /\ UNCHANGED _in_order_mode
    /\ query' = q
    /\ turnState' = state
    /\ calls' = <<>>
    /\ resp' = NoResp
    /\ toolOut' = <<>>
    /\ modelCalls' = 0
    /\ nTools' = 0
    /\ nCreate' = 0
    /\ IF is_checkout_mode(state)
       THEN /\ pc' = "order"
            /\ ctx' = "direct"
            /\ req' = q
            /\ routed' = FALSE
       ELSE /\ pc' = "route"
            /\ ctx' = "none"
            /\ req' = None
            /\ routed' = TRUE
    /\ UNCHANGED <<state, cart, orders, confirmShown>>

\* The call with the caller's side of it: the list the caller passed, after
\* the call's appends.
Invoke(q, h) ==
    /\ Orchestrator_invoke(q, h)
    /\ LET own == Assigned(Orchestrator_history(CallerList(h)))
           messages == IF is_checkout_mode(state) THEN Messages(own) ELSE copy(own)
       IN  chat_history' = AfterAppend(h, own, messages, q).caller
    /\ given' = h

\* ChatbotSession.reset()
reset ==
    /\ pc = "idle"
    /\ _chat_history' = Assigned(NewList)
    /\ _in_order_mode' = "False"
    /\ UNCHANGED <<state, cart, orders, pc, ctx, query, req, turnState, routed,
                   modelCalls, nTools, nCreate, toolOut, calls, resp, confirmShown,
                   chat_history, given>>

\* ChatbotSession.process_message from the response of Orchestrator.invoke
\* on.
process_message(response) ==
    [message |-> response.message,
     reset_history |-> \/ Contains(response.message, <<"Order placed successfully">>)
                       \/ Contains(response.message, <<"Order ID:">>),
     transfer_note |-> None]

-----------------------------------------------------------------------------
(* The order agent's run: its tools, then its result *)

\* A tool call of the running order agent. A call refused by a tool-call
\* limit does not run the tool; view_cart and add_to_cart are taken among
\* the first calls of a run, where their limits cannot have been reached.
CanCallTool ==
    /\ pc = "order"
    /\ nTools < MaxOrderTools
    /\ nTools < OrderRunLimit

OrderFrame ==
    UNCHANGED <<state, pc, ctx, query, req, turnState, routed, modelCalls,
                toolOut, calls, resp, confirmShown,
                chat_history, _chat_history, _in_order_mode, given>>

add_to_cart(p, quantity) ==
    /\ CanCallTool
    /\ nTools < AddToCartRunLimit
    /\ cart' = CartAfterAdd(cart, p, quantity)
    /\ nTools' = nTools + 1
    /\ UNCHANGED <<orders, nCreate>>
    /\ OrderFrame

remove_from_cart(p) ==
    /\ CanCallTool
    /\ cart' = CartAfterRemove(cart, p)
    /\ nTools' = nTools + 1
    /\ UNCHANGED <<orders, nCreate>>
    /\ OrderFrame

\* view_cart and transfer_to_rag_agent only return a string.
view_cart ==
    /\ CanCallTool
    /\ nTools < ViewCartRunLimit
    /\ nTools' = nTools + 1
    /\ UNCHANGED <<cart, orders, nCreate>>
    /\ OrderFrame

transfer_to_rag_agent ==
    /\ CanCallTool
    /\ nTools' = nTools + 1
    /\ UNCHANGED <<cart, orders, nCreate>>
    /\ OrderFrame

\* The order agent's run ends with outcome o: OrderAgent.invoke gives its
\* result to its caller, which is Orchestrator.invoke itself (CHECKOUT) or
\* the manage_order tool of the routing agent.
OrderAgentReturns(o) ==
    LET result == OrderAgent_invoke(o)
        cs == Append(calls, CallOfOrder(req, _chat_history.items, result))
    IN
    IF ctx = "direct"
    THEN \* Orchestrator.invoke, CHECKOUT branch
        IF result.raised
        THEN Return(Raised, calls) /\ UNCHANGED <<state, query, turnState, routed>>
        ELSE IF should_exit_checkout_mode(result.status, result.transfer)
        THEN /\ state' = StateAfterOrder(state, result.status, result.transfer)
             /\ UNCHANGED <<query, turnState, routed>>
             /\ IF result.transfer = "rag"
                THEN \E ro \in RagOutcomes :
                        LET rag_result == RAGAgent_invoke(ro)
                            cs2 == Append(cs, HandoffCall(query, rag_result))
                        IN  IF rag_result.raised
                            THEN Return(Raised, cs)
                            ELSE IF rag_result.transfer = "order"
                            THEN Return(OrchestratorResponse(result.message, "order"), cs2)
                            ELSE Return(OrchestratorResponse(
                                            _append_product_details(rag_result.message,
                                                                    rag_result.products),
                                            "rag"), cs2)
                ELSE Return(OrchestratorResponse(result.message, "order"), cs)
        ELSE /\ Return(OrchestratorResponse(result.message, "order"), cs)
             /\ state' = StateAfterOrder(state, result.status, result.transfer)
             /\ UNCHANGED <<query, turnState, routed>>
    ELSE \* manage_order, after order_agent.invoke
        IF result.raised
        THEN \* the tool's exception ends self.agent.invoke, caught by invoke
             /\ Return(OrchestratorResponse(OrchErrorMsg, "orchestrator"), calls)
             /\ UNCHANGED <<state, query, turnState, routed>>
        ELSE /\ state' = StateAfterOrder(state, result.status, result.transfer)
             /\ toolOut' = IF /\ should_exit_checkout_mode(result.status, result.transfer)
                              /\ result.transfer = "rag"
                           THEN TransferPrefix \o result.message
                           ELSE result.message
             /\ calls' = cs
             /\ pc' = "route"
             /\ ctx' = "none"
             /\ req' = None
             /\ nTools' = 0
             /\ nCreate' = 0
             /\ UNCHANGED <<query, turnState, routed, modelCalls, resp, confirmShown>>

\* Mutant: leaving CHECKOUT empties the cart.
OrderReturn_clear(o) ==
    /\ pc = "order"
    /\ OrderAgentReturns(o)
    /\ cart' = IF state = CHECKOUT /\ state' = INTENT THEN <<>> ELSE cart
    /\ UNCHANGED <<orders, chat_history, _chat_history, _in_order_mode, given>>

OrderReturn(o) ==
    /\ pc = "order"
    /\ OrderAgentReturns(o)
    /\ UNCHANGED <<cart, orders, chat_history, _chat_history, _in_order_mode, given>>

ExceptionOutcome == [kind |-> "exception", status |-> None, transfer |-> None]

\* create_order: refused by the tool-call limit after the first call of a
\* run; an error string when the cart does not pass validation; otherwise
\* OrderDatabase.create_order commits the order and the cart is cleared, or
\* it raises, which ends the agent's run with that exception.
create_order(fault) ==
    /\ CanCallTool
    /\ nCreate < CreateOrderRunLimit
    /\ IF ~CartOrderable(cart)
       THEN /\ fault = "none"
            /\ nTools' = nTools + 1
            /\ nCreate' = nCreate + 1
            /\ UNCHANGED <<cart, orders>>
            /\ OrderFrame
       ELSE LET order == OrderDatabase_create_order(orders, OrderItemsOf(cart), fault)
            IN  /\ Len(order.orders) <= MaxOrders
                /\ orders' = order.orders
                /\ IF order.raised
                   THEN /\ OrderAgentReturns(ExceptionOutcome)
                        /\ UNCHANGED <<cart, chat_history, _chat_history,
                                       _in_order_mode, given>>
                   ELSE /\ cart' = <<>>
                        /\ nTools' = nTools + 1
                        /\ nCreate' = nCreate + 1
                        /\ OrderFrame

-----------------------------------------------------------------------------
(* The routing agent's run: its tools, then its result *)

CanRoute ==
    /\ pc = "route"
    /\ modelCalls < RouteRunLimit

\* A routing tool calls its agent's invoke(request,
\* chat_history=self._chat_history), which appends the request to its list
\* of messages.
HandlerCalled(request) ==
    /\ LET after == AfterAppend(chat_history, _chat_history,
                                Messages(_chat_history), request)
       IN  /\ chat_history' = after.caller
           /\ _chat_history' = after.own
    /\ UNCHANGED <<_in_order_mode, given>>

\* Mutant: the tool sets CHECKOUT, as manage_order does.
search_products_checkout(request, ro) ==
    /\ CanRoute
    /\ modelCalls' = modelCalls + 1
    /\ LET result == RAGAgent_invoke(ro)
       IN  IF result.raised
           THEN /\ Return(OrchestratorResponse(OrchErrorMsg, "orchestrator"), calls)
                /\ state' = CHECKOUT
           ELSE /\ state' = CHECKOUT
                /\ calls' = Append(calls, CallOfRag(request, _chat_history.items, result))
                /\ toolOut' = _append_product_details(result.message, result.products)
                /\ UNCHANGED <<pc, ctx, req, nTools, nCreate, resp, confirmShown>>
    /\ HandlerCalled(request)
    /\ UNCHANGED <<cart, orders, query, turnState, routed>>

\* Mutant: the tool empties the cart.
search_products_clear(request, ro) ==
    /\ CanRoute
    /\ modelCalls' = modelCalls + 1
    /\ LET result == RAGAgent_invoke(ro)
       IN  IF result.raised
           THEN /\ Return(OrchestratorResponse(OrchErrorMsg, "orchestrator"), calls)
                /\ state' = INTENT
           ELSE /\ state' = INTENT
                /\ calls' = Append(calls, CallOfRag(request, _chat_history.items, result))
                /\ toolOut' = _append_product_details(result.message, result.products)
                /\ UNCHANGED <<pc, ctx, req, nTools, nCreate, resp, confirmShown>>
    /\ cart' = <<>>
    /\ HandlerCalled(request)
    /\ UNCHANGED <<orders, query, turnState, routed>>

\* search_products tool: sets INTENT, calls the RAG agent, gives the model
\* the message with the products appended. The result's transfer_to_agent
\* is not read.
search_products(request, ro) ==
    /\ CanRoute
    /\ modelCalls' = modelCalls + 1
    /\ LET result == RAGAgent_invoke(ro)
       IN  IF result.raised
           THEN /\ Return(OrchestratorResponse(OrchErrorMsg, "orchestrator"), calls)
                /\ state' = INTENT
           ELSE /\ state' = INTENT
                /\ calls' = Append(calls, CallOfRag(request, _chat_history.items, result))
                /\ toolOut' = _append_product_details(result.message, result.products)
                /\ UNCHANGED <<pc, ctx, req, nTools, nCreate, resp, confirmShown>>
    /\ HandlerCalled(request)
    /\ UNCHANGED <<cart, orders, query, turnState, routed>>

\* manage_order tool, up to its call of order_agent.invoke.
manage_order(request) ==
    /\ CanRoute
    /\ modelCalls' = modelCalls + 1
    /\ state' = CHECKOUT
    /\ pc' = "order"
    /\ ctx' = "tool"
    /\ req' = request
    /\ nTools' = 0
    /\ nCreate' = 0
    /\ HandlerCalled(request)
    /\ UNCHANGED <<cart, orders, query, turnState, routed, toolOut, calls, resp,
                   confirmShown>>

\* Mutant: the clarification response is labelled with a handler.
Orchestrator_result_rag(o, out) ==
    CASE o.kind = "exception" -> OrchestratorResponse(OrchErrorMsg, "orchestrator")
      [] o.kind = "none" -> OrchestratorResponse(OrchClarifyMsg, "rag")
      [] OTHER -> OrchestratorResponse(IF o.verbatim THEN out ELSE LlmMsg, o.agent_used)

\* Orchestrator.invoke from the result of self.agent.invoke on.
Orchestrator_result(o, out) ==
    CASE o.kind = "exception" -> OrchestratorResponse(OrchErrorMsg, "orchestrator")
      [] o.kind = "none" -> OrchestratorResponse(OrchClarifyMsg, "orchestrator")
      [] OTHER -> OrchestratorResponse(IF o.verbatim THEN out ELSE LlmMsg, o.agent_used)

\* The routing agent's run ends: a structured response needs one more model
\* call; at the limit the run ends with none.
RouteReturn(o) ==
    /\ pc = "route"
    /\ o.kind = "structured" => modelCalls < RouteRunLimit
    /\ Return(Orchestrator_result(o, toolOut), calls)
    /\ UNCHANGED <<state, cart, orders, query, turnState, routed,
                   chat_history, _chat_history, _in_order_mode, given>>

-----------------------------------------------------------------------------
\* The `request` a routing tool is called with is text the routing model
\* writes; it is not tied to user_query.
ToolRequests == {LlmRequest}

\* The cart and the orders as a call of Orchestrator.invoke finds them: the
\* only step taken when no turn is running is Invoke.
ObserveTurn ==
    turnStart' = IF pc = "idle" THEN [cart |-> cart, orders |-> Len(orders)] ELSE turnStart

\* The program, unobserved; the one session it serves is the one of the
\* variables above.
Unobserved == UNCHANGED <<lastTool, turnCreates, turnStart, heap, sessions>>

Next ==
    \/ \E q \in Queries : Invoke(q, EmptyHistory) /\ Unobserved
    \/ \E p \in ProductIds, n \in Quantities : add_to_cart(p, n) /\ Unobserved
    \/ \E p \in ProductIds : remove_from_cart(p) /\ Unobserved
    \/ view_cart /\ Unobserved
    \/ transfer_to_rag_agent /\ Unobserved
    \/ \E fault \in DbFaults : create_order(fault) /\ Unobserved
    \/ \E o \in OrderOutcomes : OrderReturn(o) /\ Unobserved
    \/ \E r \in ToolRequests, ro \in RagOutcomes : search_products(r, ro) /\ Unobserved
    \/ \E r \in ToolRequests : manage_order(r) /\ Unobserved
    \/ \E o \in RouteOutcomes : RouteReturn(o) /\ Unobserved

Spec == Init /\ [][Next]_vars

-----------------------------------------------------------------------------
(* The cart specification: the same program with the order model's cart
   arguments drawn from the wider sets, the routing model calling only
   manage_order, and each step observed in lastTool and turnCreates. The
   cart and the orders depend on nothing but the sequence of the order
   agent's tool calls. *)

\* What the order agent's result says in this specification; the cart does
\* not depend on it.
CartOrderOutcomes ==
    {o \in OrderOutcomes :
        /\ o.kind = "structured"
        /\ o.transfer = None
        /\ o.status = "collecting_info"}

CartRouteOutcomes == {o \in RouteOutcomes : o.kind = "none"}

\* The observations are of the running turn: they end with it.
Observe(tool) ==
    /\ lastTool' = tool
    /\ turnCreates' = IF pc' = "idle" THEN 0 ELSE turnCreates
    /\ UNCHANGED <<turnStart, heap, sessions>>

\* create_order returned its error string, returned the confirmation, or
\* OrderDatabase.create_order raised and ended the order agent's run.
ObserveCreate(fault) ==
    /\ turnCreates' = IF pc' = "idle" THEN 0 ELSE turnCreates + 1
    /\ lastTool' = ToolCall("create_order", None, None, cart,
                            [kind |-> IF ~CartOrderable(cart) THEN "error"
                                      ELSE IF fault = "none" THEN "created"
                                      ELSE "raised"])
    /\ UNCHANGED <<turnStart, heap, sessions>>

NextCart ==
    \/ Invoke("q_yes", EmptyHistory) /\ Observe(NoTool)
    \/ \E p \in CartProductIds, n \in CartQuantities :
            /\ add_to_cart(p, n)
            /\ Observe(ToolCall("add_to_cart", p, n, cart, add_to_cart_out(cart, p, n)))
    \/ \E p \in CartProductIds :
            /\ remove_from_cart(p)
            /\ Observe(ToolCall("remove_from_cart", p, None, cart, remove_from_cart_out(cart, p)))
    \/ view_cart /\ Observe(ToolCall("view_cart", None, None, cart, view_cart_out(cart)))
    \/ \E fault \in DbFaults : create_order(fault) /\ ObserveCreate(fault)
    \/ \E o \in CartOrderOutcomes : OrderReturn(o) /\ Observe(NoTool)
    \/ \E r \in ToolRequests : manage_order(r) /\ Observe(NoTool)
    \/ \E o \in CartRouteOutcomes : RouteReturn(o) /\ Observe(NoTool)

SpecCart == Init /\ [][NextCart]_vars

-----------------------------------------------------------------------------
(* The turn specification: the program of Spec with the cart and the number
   of orders at the start of each turn observed in turnStart. The state,
   the cart and the orders do not depend on the products the RAG model
   lists nor on what the routing model writes in its response, which are
   fixed here. *)

TurnRagOutcomes == {o \in RagOutcomes : o.products = <<>>}

TurnRouteOutcomes ==
    {o \in RouteOutcomes : o.kind = "structured" => (o.agent_used = "rag" /\ o.verbatim)}

TurnObserved == UNCHANGED <<lastTool, turnCreates, heap, sessions>> /\ ObserveTurn

NextTurn ==
    \/ Invoke("q_yes", EmptyHistory) /\ TurnObserved
    \/ \E p \in ProductIds, n \in Quantities : add_to_cart(p, n) /\ TurnObserved
    \/ \E p \in ProductIds : remove_from_cart(p) /\ TurnObserved
    \/ view_cart /\ TurnObserved
    \/ transfer_to_rag_agent /\ TurnObserved
    \/ \E fault \in DbFaults : create_order(fault) /\ TurnObserved
    \/ \E o \in OrderOutcomes : OrderReturn(o) /\ TurnObserved
    \/ \E r \in ToolRequests, ro \in TurnRagOutcomes : search_products(r, ro) /\ TurnObserved
    \/ \E r \in ToolRequests : manage_order(r) /\ TurnObserved
    \/ \E o \in TurnRouteOutcomes : RouteReturn(o) /\ TurnObserved

SpecTurn == Init /\ [][NextTurn]_vars

-----------------------------------------------------------------------------
(* The search specification: turns of the routing agent that call only
   search_products, with the product ids the RAG agent's retrieve_products
   tool returned in the run observed next to the products of its result. *)

\* Product ids in the strings retrieve_products returned during a run of
\* the RAG agent: none (no call, or "No products found"), or the one match.
Retrievals == {<<>>, <<"TECH-007">>}

\* A run of the RAG agent: what its tool retrieved, what its result lists.
\* The structured response is written by the model and returned as it is.
RagRun(retrieved, result) ==
    [name |-> "rag_agent", retrieved |-> retrieved, products |-> result.products]

NextRag ==
    \/ \E q \in Queries : Invoke(q, EmptyHistory) /\ Observe(NoTool)
    \/ \E r \in ToolRequests, ro \in RagOutcomes, retrieved \in Retrievals :
            /\ search_products(r, ro)
            /\ Observe(RagRun(retrieved, RAGAgent_invoke(ro)))
    \/ \E o \in RouteOutcomes : RouteReturn(o) /\ Observe(NoTool)

SpecRag == Init /\ [][NextRag]_vars

-----------------------------------------------------------------------------
(* The session specification: a ChatbotSession whose caller passes any of
   the chat histories and may call reset() between turns. The order model
   may quote the confirmation of create_order in its message; its cart
   calls are one add_to_cart of an available product. lastTool holds the
   call of reset. *)

SessionOrderOutcomes ==
    [kind : {"structured"}, status : {"collecting_info", "completed", "failed"},
     transfer : {None, "rag"}, message : {OrderMsg, OrderPlacedMsg}]
    \cup {o \in OrderOutcomes : o.kind # "structured"}

SessionRagOutcomes ==
    {o \in TurnRagOutcomes : o.kind = "structured" /\ o.transfer # "rag"}

ResetCall == [name |-> "reset"]

NextSession ==
    \/ \E h \in Histories : Invoke("q_yes", h) /\ Observe(NoTool)
    \/ reset /\ Observe(ResetCall)
    \/ add_to_cart("TECH-007", 1) /\ Observe(NoTool)
    \/ \E o \in SessionOrderOutcomes : OrderReturn(o) /\ Observe(NoTool)
    \/ \E r \in ToolRequests, ro \in SessionRagOutcomes : search_products(r, ro) /\ Observe(NoTool)
    \/ \E r \in ToolRequests : manage_order(r) /\ Observe(NoTool)
    \/ \E o \in TurnRouteOutcomes : RouteReturn(o) /\ Observe(NoTool)

SpecSession == Init /\ [][NextSession]_vars

-----------------------------------------------------------------------------
(* The two-session specification: two Orchestrator instances in one process,
   their turns interleaved step by step. The cart of an instance is a
   reference to a list in `heap`; the tools of its order agent change that
   list in place. OrderDatabase is the one database of the process: `orders`
   is common to the sessions. view_cart, transfer_to_rag_agent and the RAG
   agent's tools write nothing and are left out; lastTool holds the session
   that took the step. *)

\* Mutant: every instance is bound to the one list, as a class attribute or
\* a default argument would be.
NewList_shared(h) ==
    IF h = <<>> THEN [heap |-> <<<<>>>>, ref |-> 1] ELSE [heap |-> h, ref |-> 1]

\* `[]` evaluated in __init__: a list no other name refers to.
NewList_in(h) == [heap |-> Append(h, <<>>), ref |-> Len(h) + 1]

\* OrderAgent.__init__: self.cart = cart if cart is not None else []
OrderAgent_cart(h, ref) == IF ref # 0 THEN [heap |-> h, ref |-> ref] ELSE NewList_in(h)

\* Orchestrator.__init__
Session_init(s) ==
    /\ sessions[s] = NotConstructed
    /\ LET own == NewList_in(heap)
           agent == OrderAgent_cart(own.heap, own.ref)
       IN  /\ heap' = agent.heap
           /\ sessions' = [sessions EXCEPT ![s] =
                  [pc |-> "idle", ctx |-> "none", _state |-> INTENT, _cart |-> own.ref,
                   cart |-> agent.ref, modelCalls |-> 0, nTools |-> 0, nCreate |-> 0]]
    /\ UNCHANGED orders

\* Orchestrator.invoke of session s, up to the first agent's run.
Session_invoke(s) ==
    /\ sessions[s].pc = "idle"
    /\ sessions' = [sessions EXCEPT ![s] =
           [@ EXCEPT !.pc = IF is_checkout_mode(sessions[s]._state) THEN "order" ELSE "route",
                     !.ctx = IF is_checkout_mode(sessions[s]._state) THEN "direct" ELSE "none",
                     !.modelCalls = 0, !.nTools = 0, !.nCreate = 0]]
    /\ UNCHANGED <<heap, orders>>

Session_search_products(s) ==
    /\ sessions[s].pc = "route"
    /\ sessions[s].modelCalls < RouteRunLimit
    /\ sessions' = [sessions EXCEPT ![s] =
           [@ EXCEPT !._state = INTENT, !.modelCalls = @ + 1]]
    /\ UNCHANGED <<heap, orders>>

Session_manage_order(s) ==
    /\ sessions[s].pc = "route"
    /\ sessions[s].modelCalls < RouteRunLimit
    /\ sessions' = [sessions EXCEPT ![s] =
           [@ EXCEPT !._state = CHECKOUT, !.modelCalls = @ + 1, !.pc = "order",
                     !.ctx = "tool", !.nTools = 0, !.nCreate = 0]]
    /\ UNCHANGED <<heap, orders>>

Session_route_returns(s) ==
    /\ sessions[s].pc = "route"
    /\ sessions' = [sessions EXCEPT ![s] = [@ EXCEPT !.pc = "idle", !.modelCalls = 0]]
    /\ UNCHANGED <<heap, orders>>

Session_can_call_tool(s) ==
    /\ sessions[s].pc = "order"
    /\ sessions[s].nTools < MaxOrderTools
    /\ sessions[s].nTools < OrderRunLimit

Session_add_to_cart(s, p, quantity) ==
    /\ Session_can_call_tool(s)
    /\ sessions[s].nTools < AddToCartRunLimit
    /\ heap' = [heap EXCEPT ![sessions[s].cart] = CartAfterAdd(@, p, quantity)]
    /\ sessions' = [sessions EXCEPT ![s] = [@ EXCEPT !.nTools = @ + 1]]
    /\ UNCHANGED orders

Session_remove_from_cart(s, p) ==
    /\ Session_can_call_tool(s)
    /\ heap' = [heap EXCEPT ![sessions[s].cart] = CartAfterRemove(@, p)]
    /\ sessions' = [sessions EXCEPT ![s] = [@ EXCEPT !.nTools = @ + 1]]
    /\ UNCHANGED orders

\* Session s after its order agent's run ended with outcome o: the caller
\* reads the result, in Orchestrator.invoke or in manage_order.
SessionAfterOrder(r, o) ==
    LET result == OrderAgent_invoke(o)
    IN  [r EXCEPT !._state = StateAfterOrder(@, result.status, result.transfer),
                  !.pc = IF r.ctx = "direct" THEN "idle" ELSE "route",
                  !.ctx = "none", !.nTools = 0, !.nCreate = 0]

Session_order_returns(s, o) ==
    /\ sessions[s].pc = "order"
    /\ sessions' = [sessions EXCEPT ![s] = SessionAfterOrder(@, o)]
    /\ UNCHANGED <<heap, orders>>

Session_create_order(s, fault) ==
    LET c == heap[sessions[s].cart]
    IN  /\ Session_can_call_tool(s)
        /\ sessions[s].nCreate < CreateOrderRunLimit
        /\ IF ~CartOrderable(c)
           THEN /\ fault = "none"
                /\ sessions' = [sessions EXCEPT ![s] =
                       [@ EXCEPT !.nTools = @ + 1, !.nCreate = @ + 1]]
                /\ UNCHANGED <<heap, orders>>
           ELSE LET order == OrderDatabase_create_order(orders, OrderItemsOf(c), fault)
                IN  /\ Len(order.orders) <= MaxOrders
                    /\ orders' = order.orders
                    /\ IF order.raised
                       THEN /\ sessions' = [sessions EXCEPT ![s] =
                                   SessionAfterOrder(@, ExceptionOutcome)]
                            /\ UNCHANGED heap
                       ELSE /\ heap' = [heap EXCEPT ![sessions[s].cart] = <<>>]
                            /\ sessions' = [sessions EXCEPT ![s] =
                                   [@ EXCEPT !.nTools = @ + 1, !.nCreate = @ + 1]]

\* The orders apart, the variables of the one-session specifications stand
\* still.
SessionStep(s) ==
    /\ UNCHANGED <<state, cart, pc, ctx, query, req, turnState, routed, modelCalls,
                   nTools, nCreate, toolOut, calls, resp, confirmShown,
                   chat_history, _chat_history, _in_order_mode, given,
                   turnCreates, turnStart>>
    /\ lastTool' = [name |-> "session", session |-> s]

TwoOrderOutcomes ==
    {o \in OrderOutcomes : o.kind = "structured" => o.status \in {"collecting_info", "completed"}}

NextTwo ==
    \E s \in SessionIds :
        \/ Session_init(s) /\ SessionStep(s)
        \/ Session_invoke(s) /\ SessionStep(s)
        \/ Session_search_products(s) /\ SessionStep(s)
        \/ Session_manage_order(s) /\ SessionStep(s)
        \/ Session_route_returns(s) /\ SessionStep(s)
        \/ \E p \in ProductIds, n \in Quantities : Session_add_to_cart(s, p, n) /\ SessionStep(s)
        \/ \E p \in ProductIds : Session_remove_from_cart(s, p) /\ SessionStep(s)
        \/ \E fault \in DbFaults : Session_create_order(s, fault) /\ SessionStep(s)
        \/ \E o \in TwoOrderOutcomes : Session_order_returns(s, o) /\ SessionStep(s)

SpecTwo == Init /\ [][NextTwo]_vars

-----------------------------------------------------------------------------
(* Properties *)

Terminal == {"completed", "failed"}

Other(h) == IF h = "rag" THEN "order" ELSE "rag"

NumCalls(h) == Cardinality({i \in 1..Len(calls) : calls[i].handler = h})

\* The call asks for the other handler.
RequestsTransfer(c) == c.transfer = Other(c.handler)

\* The first handler asked for the other one, which was invoked next and
\* asked for the first one back.
Bounce ==
    /\ Len(calls) >= 2
    /\ RequestsTransfer(calls[1])
    /\ calls[2].handler = Other(calls[1].handler)
    /\ calls[2].transfer = calls[1].handler

\* C1. Mode persistence: in a turn that starts in CHECKOUT the routing agent
\* is never invoked, and the turn's first handler call is the order agent,
\* called with the user's turn.
ModePersistence ==
    (turnState = CHECKOUT /\ (TurnRunning \/ TurnEnded)) =>
        /\ ~routed
        /\ modelCalls = 0
        /\ TurnEnded =>
              /\ Len(calls) >= 1
              /\ calls[1].handler = "order"
              /\ calls[1].query = query

ModePersistenceWitness ==
    /\ TurnEnded
    /\ turnState = CHECKOUT
    /\ state = CHECKOUT
    /\ Len(calls) = 1
    /\ calls[1].handler = "order"
    /\ calls[1].query = query

\* C2. Exit on terminal order status: at the end of a turn in which some
\* OrderAgent result had status completed or failed, _state is INTENT.
ExitOnTerminalStatus ==
    TurnEnded =>
        \A i \in 1..Len(calls) :
            (calls[i].handler = "order" /\ calls[i].status \in Terminal)
                => state = INTENT

\* C3. A turn whose last handler result is an OrderAgent result with status
\* completed ends with an empty cart.
CompletedCartEmpty ==
    (/\ TurnEnded
     /\ Len(calls) >= 1
     /\ calls[Len(calls)].handler = "order"
     /\ calls[Len(calls)].status = "completed") => cart = <<>>

\* C4. Confirmation gate: an order is persisted only in a turn that is an
\* explicit confirmation and comes after an earlier turn that showed the
\* summary (status confirming).
ConfirmationGate ==
    [][Len(orders') > Len(orders) => (confirmShown /\ query = "q_yes")]_vars

\* C5. Bounce termination: in a turn with a bounce there is no third handler
\* call and the response names the first handler invoked.
BounceTermination ==
    (TurnEnded /\ Bounce) =>
        /\ Len(calls) = 2
        /\ resp.kind = "returned"
        /\ resp.agent_used = calls[1].handler

\* C6. On a bounce the returned message is the first handler's message,
\* unchanged.
BounceMessageVerbatim ==
    (TurnEnded /\ Bounce) =>
        /\ resp.kind = "returned"
        /\ resp.message = calls[1].message

\* C7 as stated. On a bounce out of CHECKOUT the mode follows the order
\* agent's own status: CHECKOUT for collecting_info or confirming, INTENT
\* only for completed or failed.
BounceModeFollowsStatus ==
    (TurnEnded /\ turnState = CHECKOUT /\ Bounce) =>
        (state = INTENT <=> calls[1].status \in Terminal)

\* C7 as amended. On a bounce out of CHECKOUT the mode after the turn is
\* INTENT whatever status the order agent reported.
BounceExitsCheckout ==
    (TurnEnded /\ turnState = CHECKOUT /\ Bounce) => state = INTENT

BounceExitsCheckoutWitness ==
    /\ TurnEnded
    /\ turnState = CHECKOUT
    /\ Bounce
    /\ calls[1].status = "collecting_info"
    /\ state = INTENT

\* C8. A transfer request of the first handler is executed in the same turn:
\* the target handler is invoked exactly once, next, with the user's turn,
\* and the mode is set for the target.
TransferSameTurn ==
    (TurnEnded /\ Len(calls) >= 1 /\ RequestsTransfer(calls[1])) =>
        LET target == Other(calls[1].handler)
        IN  /\ NumCalls(target) = 1
            /\ calls[2].handler = target
            /\ calls[2].query = query
            /\ (target = "rag" /\ calls[2].transfer # "order") => state = INTENT
            /\ (target = "order"
                    /\ ~should_exit_checkout_mode(calls[2].status, calls[2].transfer))
                  => state = CHECKOUT

\* C9. A CHECKOUT turn in which the order agent asks for a transfer to rag
\* invokes the RAG agent exactly once; when that does not transfer back,
\* the mode after the turn is INTENT and the response has agent_used = rag.
OrderToSearchHandoff ==
    (/\ TurnEnded
     /\ turnState = CHECKOUT
     /\ Len(calls) >= 1
     /\ calls[1].handler = "order"
     /\ calls[1].transfer = "rag") =>
        /\ NumCalls("rag") = 1
        /\ Len(calls) = 2
        /\ calls[2].handler = "rag"
        /\ calls[2].transfer # "order" =>
              /\ state = INTENT
              /\ resp.kind = "returned"
              /\ resp.agent_used = "rag"

OrderToSearchHandoffWitness ==
    /\ TurnEnded
    /\ turnState = CHECKOUT
    /\ Len(calls) = 2
    /\ calls[1].handler = "order"
    /\ calls[1].status = "confirming"
    /\ calls[1].transfer = "rag"
    /\ calls[2].handler = "rag"
    /\ calls[2].transfer = None
    /\ state = INTENT
    /\ resp = OrchestratorResponse(RagMsg \o <<"Products Found:", "TECH-007">>, "rag")

\* C10. Orchestrator.invoke never raises: whenever no turn is running, the
\* last call (if any) gave an OrchestratorResponse.
NeverRaises ==
    /\ resp # Raised
    /\ (pc = "idle" /\ resp = NoResp) => (query = None /\ calls = <<>>)
    /\ TurnEnded =>
          /\ resp.kind = "returned"
          /\ resp.agent_used \in LlmAgentNames

\* A CHECKOUT turn in which the order agent's run raised.
NeverRaisesWitness ==
    /\ TurnEnded
    /\ turnState = CHECKOUT
    /\ Len(calls) = 1
    /\ calls[1].message = OrderErrorMsg
    /\ resp = OrchestratorResponse(OrderErrorMsg, "order")

-----------------------------------------------------------------------------
(* agent_used *)

Handlers == {"rag", "order"}

\* C11, as stated. Every response Orchestrator.invoke returns has agent_used
\* equal to "rag" or "order", on the error and clarification paths too.
AgentUsedIsHandler ==
    TurnEnded => resp.agent_used \in Handlers

\* C11, amended. A turn begun in CHECKOUT returns agent_used "order" or
\* "rag"; the error and the clarification response of a turn begun in INTENT
\* carry agent_used "orchestrator".
AgentUsedByPath ==
    TurnEnded =>
        /\ turnState = CHECKOUT => resp.agent_used \in Handlers
        /\ resp.message \in {OrchErrorMsg, OrchClarifyMsg} =>
              /\ turnState = INTENT
              /\ resp.agent_used = "orchestrator"

\* The routing agent gave no structured response after a tool call.
AgentUsedByPathWitness ==
    /\ TurnEnded
    /\ turnState = INTENT
    /\ Len(calls) = 1
    /\ resp = OrchestratorResponse(OrchClarifyMsg, "orchestrator")

\* C12. agent_used names the handler whose result is final: a response with
\* agent_used "order" (or "rag") ends a turn in which that handler was
\* invoked, and its message is built from that handler's result.
AgentUsedNamesFinalHandler ==
    TurnEnded =>
        \A h \in Handlers :
            resp.agent_used = h =>
                \E i \in 1..Len(calls) :
                    /\ calls[i].handler = h
                    /\ Contains(resp.message, calls[i].message)

-----------------------------------------------------------------------------
(* The cart *)

LinesOf(c, p) == {i \in 1..Len(c) : c[i].product_id = p}

Without(c, p) == SelectSeq(c, LAMBDA line : line.product_id # p)

Available(p) ==
    /\ p \in DOMAIN Catalog
    /\ Catalog[p].stock_status \in {"in_stock", "low_stock"}

\* C13. add_to_cart(p, q2) on a cart that holds p leaves one line for p,
\* in its place, with quantity q2, and every other line as it was; the same
\* add_to_cart again gives the same cart.
ReplaceNotAppend ==
    lastTool.name = "add_to_cart" =>
        LET b == lastTool.before
            p == lastTool.product_id
            q == lastTool.quantity
        IN  /\ LinesOf(b, p) # {} =>
                  /\ Len(cart) = Len(b)
                  /\ Cardinality(LinesOf(cart, p)) = 1
                  /\ \A i \in 1..Len(b) :
                        IF b[i].product_id = p
                        THEN cart[i] = [b[i] EXCEPT !.quantity = q]
                        ELSE cart[i] = b[i]
            /\ CartAfterAdd(cart, p, q) = cart

\* TECH-007 held with quantity 0 before TECH-009, then add_to_cart(TECH-007, 2).
ReplaceNotAppendWitness ==
    /\ lastTool.name = "add_to_cart"
    /\ lastTool.product_id = "TECH-007"
    /\ lastTool.quantity = 2
    /\ Len(lastTool.before) = 2
    /\ lastTool.before[1].product_id = "TECH-007"
    /\ lastTool.before[1].quantity = 0
    /\ Len(cart) = 2
    /\ cart[1].quantity = 2

\* C14. No two cart lines have the same product_id.
CartUnique ==
    \A i, j \in 1..Len(cart) : cart[i].product_id = cart[j].product_id => i = j

\* A product is added again to a cart of two lines, after an order was
\* created in an earlier turn.
CartUniqueWitness ==
    /\ orders # <<>>
    /\ lastTool.name = "add_to_cart"
    /\ LinesOf(lastTool.before, lastTool.product_id) # {}
    /\ Len(lastTool.before) = 2
    /\ Len(cart) = 2

\* C15. Every cart line's quantity is at least 1.
QuantityPositive ==
    \A i \in 1..Len(cart) : cart[i].quantity >= 1

\* C16. add_to_cart(p, q) takes effect exactly when p is in the catalog and
\* in_stock or low_stock: then the cart holds p with quantity q, and differs
\* from the cart before unless that already held p with q. Otherwise the
\* tool returns its error string, the run goes on and the cart is as before.
AddChecksAvailability ==
    lastTool.name = "add_to_cart" =>
        LET b == lastTool.before
            p == lastTool.product_id
            q == lastTool.quantity
        IN  /\ pc = "order"
            /\ IF Available(p)
               THEN /\ \E i \in 1..Len(cart) :
                          cart[i].product_id = p /\ cart[i].quantity = q
                    /\ lastTool.out.kind \in {"added", "updated"}
                    /\ (cart = b) <=>
                          \E i \in 1..Len(b) : b[i].product_id = p /\ b[i].quantity = q
               ELSE /\ cart = b
                    /\ lastTool.out.kind =
                          IF p \in DOMAIN Catalog THEN "out_of_stock" ELSE "not_found"

\* add_to_cart of the out-of-stock product on a cart of one line.
AddChecksAvailabilityWitness ==
    /\ lastTool.name = "add_to_cart"
    /\ lastTool.product_id = "SPORT-003"
    /\ lastTool.out.kind = "out_of_stock"
    /\ Len(lastTool.before) = 1
    /\ cart = lastTool.before

\* C17. remove_from_cart(p) takes the line of p out and leaves the other
\* lines and their order; when the cart has no line of p it returns "not in
\* your cart", the run goes on and the cart is as before.
RemoveFromCart ==
    lastTool.name = "remove_from_cart" =>
        LET b == lastTool.before
            p == lastTool.product_id
        IN  /\ pc = "order"
            /\ cart = Without(b, p)
            /\ IF LinesOf(b, p) # {}
               THEN /\ Len(cart) = Len(b) - 1
                    /\ lastTool.out.kind = "removed"
               ELSE /\ cart = b
                    /\ lastTool.out.kind = "not_in_cart"

\* The first of two lines is removed.
RemoveFromCartWitness ==
    /\ lastTool.name = "remove_from_cart"
    /\ Len(lastTool.before) = 2
    /\ lastTool.before[1].product_id = lastTool.product_id
    /\ cart = <<lastTool.before[2]>>

\* C18. A view_cart call leaves the cart, the orchestrator's state and the
\* orders as they were, and the total it shows is the sum over the lines of
\* quantity * unit_price.
ViewCartReadOnly ==
    [][(lastTool'.name = "view_cart" /\ nTools' = nTools + 1) =>
          /\ cart' = cart
          /\ state' = state
          /\ orders' = orders
          /\ lastTool'.before = cart
          /\ IF cart = <<>>
             THEN lastTool'.out.kind = "cart_empty"
             ELSE /\ lastTool'.out.kind = "cart"
                  /\ lastTool'.out.total = SumSubtotals(cart)]_vars

\* view_cart on 2 x TECH-007 at 3 and 2 x TECH-009 at 7, after an order.
ViewCartReadOnlyWitness ==
    /\ lastTool.name = "view_cart"
    /\ orders # <<>>
    /\ Len(cart) = 2
    /\ \A i \in 1..2 : cart[i].quantity = 2
    /\ lastTool.out.total = 20

-----------------------------------------------------------------------------
(* Bounds of a turn *)

\* C19. In one turn create_order is executed at most once.
OneCreatePerTurn ==
    turnCreates <= 1

\* C20. A turn invokes the handlers at most twice.
AtMostTwoHandlerCalls ==
    Len(calls) <= 2

-----------------------------------------------------------------------------
(* Turns: state, cart and orders *)

OrderCalls == {i \in 1..Len(calls) : calls[i].handler = "order"}
RagCalls == {i \in 1..Len(calls) : calls[i].handler = "rag"}

\* The order agent's result asks to leave CHECKOUT.
ExitResult(c) == c.handler = "order" /\ (c.status \in Terminal \/ c.transfer = "rag")

\* C21. The state goes from INTENT to CHECKOUT only in a step that selects
\* the order agent, and from CHECKOUT to INTENT only in a step in which the
\* order agent returned completed, failed or a transfer to search; no other
\* step, search_products included, changes it.
ModeChangesByRule ==
    [][/\ (state = INTENT /\ state' = CHECKOUT) => (pc' = "order" /\ ctx' = "tool")
       /\ (state = CHECKOUT /\ state' = INTENT) =>
             \E i \in (Len(calls) + 1)..Len(calls') : ExitResult(calls'[i])]_vars

\* C22. A turn begun in INTENT in which the order agent is invoked and
\* reports collecting_info or confirming without a transfer ends in CHECKOUT.
FreeOrderTurnLocks ==
    (/\ TurnEnded
     /\ turnState = INTENT
     /\ OrderCalls # {}
     /\ \A i \in OrderCalls : calls[i].status \notin Terminal /\ calls[i].transfer = None)
    => state = CHECKOUT

\* C23. A turn begun in INTENT in which only the RAG agent is invoked, with
\* no transfer request, ends in INTENT with the cart (and the orders) as they
\* were when it began.
SearchTurnFrame ==
    (/\ TurnEnded
     /\ turnState = INTENT
     /\ calls # <<>>
     /\ \A i \in 1..Len(calls) : calls[i].handler = "rag" /\ calls[i].transfer = None)
    => /\ state = INTENT
       /\ cart = turnStart.cart
       /\ Len(orders) = turnStart.orders

\* One search in a session that holds a cart line and an order.
SearchTurnFrameWitness ==
    /\ TurnEnded
    /\ turnState = INTENT
    /\ Len(calls) = 1
    /\ calls[1].handler = "rag"
    /\ calls[1].transfer = None
    /\ cart # <<>>
    /\ cart = turnStart.cart
    /\ orders # <<>>
    /\ state = INTENT

FaultMessages ==
    {OrderErrorMsg, OrderClarifyMsg, RagTimeoutMsg, RagErrorMsg, RagClarifyMsg}

\* C24. A handler whose model call timed out, raised or gave no structured
\* result returns without raising, and not with status completed or failed:
\* such a turn begun in CHECKOUT ends in CHECKOUT.
FaultKeepsCheckout ==
    /\ resp # Raised
    /\ \A i \in 1..Len(calls) :
          calls[i].message \in FaultMessages => calls[i].status \notin Terminal
    /\ (/\ TurnEnded
        /\ turnState = CHECKOUT
        /\ calls[1].message \in FaultMessages) => state = CHECKOUT

\* C25. A turn in which the order agent's run failed with an exception ends
\* with the cart and the state as they were when the turn began.
AbortedTurnFrame ==
    (/\ TurnEnded
     /\ \E i \in OrderCalls : calls[i].message = OrderErrorMsg)
    => /\ cart = turnStart.cart
       /\ state = turnState

\* C27. When the order agent reports completed in a turn, an order was
\* persisted in that turn.
CompletedMeansPersisted ==
    (/\ TurnEnded
     /\ \E i \in OrderCalls : calls[i].status = "completed")
    => Len(orders) > turnStart.orders

\* C29. A step in which the RAG agent is invoked, by search_products or as
\* the target of a transfer, leaves the cart and the orders as they were.
RagAgentFrame ==
    [][(\E i \in (Len(calls) + 1)..Len(calls') : calls'[i].handler = "rag") =>
          /\ cart' = cart
          /\ orders' = orders]_vars

\* The RAG agent invoked as the target of a transfer, in a session that
\* holds a cart line and an order.
RagAgentFrameWitness ==
    /\ TurnEnded
    /\ turnState = CHECKOUT
    /\ Len(calls) = 2
    /\ calls[2].handler = "rag"
    /\ cart # <<>>
    /\ orders # <<>>

-----------------------------------------------------------------------------
(* Orders and products *)

\* The step is a call of create_order (one call at most in a run).
CreateStep == lastTool'.name = "create_order" /\ lastTool.name # "create_order"

\* C26. The cart is cleared exactly when an order is created: a create_order
\* that succeeds persists the order and empties the cart in one step, no
\* other step clears a cart (remove_from_cart takes out one line), and when
\* OrderDatabase.create_order raises no order is recorded and the cart keeps
\* its lines.
CartClearedByOrder ==
    [][/\ (CreateStep /\ lastTool'.out.kind = "created") =>
             /\ cart' = <<>>
             /\ orders' = Append(orders, OrderRow(OrderItemsOf(cart)))
       /\ (CreateStep /\ lastTool'.out.kind = "raised") =>
             /\ cart' = cart
             /\ orders' = orders
       /\ (cart # <<>> /\ cart' = <<>>) =>
             \/ CreateStep /\ lastTool'.out.kind = "created"
             \/ lastTool'.name = "remove_from_cart" /\ Len(cart) = 1
       /\ orders' # orders => cart' = <<>>]_vars

\* C28. Every product in a result of the RAG agent has a product_id that
\* retrieve_products returned during that run; when it returned none the
\* products list is empty.
ProductsWereRetrieved ==
    lastTool.name = "rag_agent" =>
        \A i \in 1..Len(lastTool.products) :
            \E j \in 1..Len(lastTool.retrieved) :
                lastTool.retrieved[j] = lastTool.products[i]

\* C30. OrderDatabase.create_order either records the order with all its
\* items and returns, or records nothing and raises; no recorded order
\* lacks any of its items.
OrderPersistenceAtomic ==
    [][(CreateStep /\ lastTool'.out.kind \in {"created", "raised"}) =>
          /\ IF lastTool'.out.kind = "raised"
             THEN orders' = orders
             ELSE orders' = Append(orders, OrderRow(OrderItemsOf(cart)))
          /\ \A k \in 1..Len(orders') :
                /\ orders'[k].items # <<>>
                /\ orders'[k].total_amount = SumSubtotals(orders'[k].items)]_vars

\* The cart create_order must reject: empty, or with a line whose product
\* is not in the catalog or is out of stock.
Rejected(c) ==
    \/ c = <<>>
    \/ \E i \in 1..Len(c) :
          \/ c[i].product_id \notin DOMAIN Catalog
          \/ Catalog[c[i].product_id].stock_status = "out_of_stock"

OrderMatchesCart ==
    [][(CreateStep /\ lastTool'.out.kind = "created") =>
          /\ Len(orders') = Len(orders) + 1
          /\ SubSeq(orders', 1, Len(orders)) = orders
          /\ LET order == orders'[Len(orders')]
             IN  /\ Len(order.items) = Len(cart)
                 /\ \A i \in 1..Len(cart) :
                       /\ order.items[i].product_id = cart[i].product_id
                       /\ order.items[i].quantity = cart[i].quantity
                 /\ order.total_amount = SumSubtotals(order.items)
                 /\ view_cart_out(cart).kind = "cart"
                 /\ order.total_amount = view_cart_out(cart).total]_vars

\* An order of two lines has been persisted.
OrderMatchesCartWitness ==
    /\ lastTool.name = "create_order"
    /\ lastTool.out.kind = "created"
    /\ Len(lastTool.before) = 2
    /\ orders # <<>>
    /\ Len(orders[Len(orders)].items) = 2

-----------------------------------------------------------------------------
(* The controller's own responses and the cart *)

\* C37. A turn that ends with the controller's own error or clarification
\* response leaves the state and the cart as they were when the turn began,
\* also when a routing tool ran in the turn.
OwnResponseFrame ==
    (/\ TurnEnded
     /\ resp.kind = "returned"
     /\ resp.agent_used = "orchestrator"
     /\ resp.message \in {OrchErrorMsg, OrchClarifyMsg})
    => /\ state = turnState
       /\ cart = turnStart.cart

\* C38. The step that takes the session out of CHECKOUT leaves the cart as
\* the order agent's run left it, and no step but a tool call of the running
\* order agent changes the cart: its lines are there in INTENT and when the
\* session is in CHECKOUT again.
CartKeptOnExit ==
    [][/\ (state = CHECKOUT /\ state' = INTENT) => cart' = cart
       /\ cart' # cart => (pc = "order" /\ pc' = "order" /\ nTools' = nTools + 1)]_vars

\* A turn begun in CHECKOUT has ended in INTENT on the order agent's failed
\* status or on its transfer request, with lines in the cart.
CartKeptOnExitWitness ==
    /\ TurnEnded
    /\ turnState = CHECKOUT
    /\ state = INTENT
    /\ calls # <<>>
    /\ calls[1].handler = "order"
    /\ \/ calls[1].status = "failed"
       \/ calls[1].status = "collecting_info" /\ calls[1].transfer = "rag"
    /\ cart # <<>>

-----------------------------------------------------------------------------
(* The session and the chat history *)

\* The step is a call of Orchestrator.invoke.
InvokeStep == pc = "idle" /\ pc' # "idle"

\* C32. A call of Orchestrator.invoke with chat_history = None leaves the
\* Orchestrator exactly as the same call with an empty list leaves it: the
\* same _chat_history, the same agent started on the same input, no response
\* yet and nothing raised, the same state and cart.
NoneSameAsEmpty ==
    [][(InvokeStep /\ given'.none) => Orchestrator_invoke(query', EmptyHistory)]_vars

\* A turn called with None in CHECKOUT has ended with a response; the order
\* agent was called with an empty history.
NoneSameAsEmptyWitness ==
    /\ TurnEnded
    /\ given.none
    /\ turnState = CHECKOUT
    /\ resp.kind = "returned"
    /\ calls # <<>>
    /\ calls[1].handler = "order"
    /\ calls[1].history = <<>>

\* C33. After ChatbotSession.reset() the state is INTENT, _chat_history is
\* empty and the cart is empty, whatever turns came before.
ResetRestoresInitial ==
    lastTool = ResetCall =>
        /\ state = INTENT
        /\ _chat_history.items = <<>>
        /\ cart = <<>>

\* C35. process_message gives reset_history = true exactly in the turns in
\* which the order agent reported completed or failed.
ResetHistoryOnOrderEnd ==
    (TurnEnded /\ resp.kind = "returned") =>
        (process_message(resp).reset_history
            <=> \E i \in OrderCalls : calls[i].status \in {"completed", "failed"})

\* C39. The list the caller passed as chat_history has the messages it had
\* when it was passed, during the turn and after it.
HistoryNotMutated == chat_history = given

\* A turn called with a list of one message has ended after two handler
\* calls, the first with that history.
HistoryNotMutatedWitness ==
    /\ TurnEnded
    /\ given = History(<<"m_earlier">>)
    /\ Len(calls) = 2
    /\ calls[1].history = <<"m_earlier">>

\* C40. In a turn begun in CHECKOUT the order agent is called with the
\* user's query and the messages of the caller's history; when the RAG
\* agent is called in the turn, it is called with the same query and an
\* empty history.
HandoffArguments ==
    (turnState = CHECKOUT /\ TurnEnded /\ calls # <<>>) =>
        /\ calls[1].handler = "order"
        /\ calls[1].query = query
        /\ calls[1].history = given.items
        /\ Len(calls) <= 2
        /\ Len(calls) = 2 =>
              /\ calls[2].handler = "rag"
              /\ calls[2].query = calls[1].query
              /\ calls[2].history = <<>>

\* A hand-off in a turn whose caller passed a list of one message.
HandoffArgumentsWitness ==
    /\ TurnEnded
    /\ turnState = CHECKOUT
    /\ Len(calls) = 2
    /\ calls[1].transfer = "rag"
    /\ calls[1].history = <<"m_earlier">>
    /\ calls[2].handler = "rag"

-----------------------------------------------------------------------------
(* Two sessions *)

\* The mode and the cart of session s, as a caller of that session can see
\* them.
ModeAndCart(s) ==
    IF sessions[s] = NotConstructed THEN [made |-> FALSE]
    ELSE [made |-> TRUE,
          _state |-> sessions[s]._state,
          _cart |-> heap[sessions[s]._cart],
          cart |-> heap[sessions[s].cart]]

\* C31. With two Orchestrator instances whose turns are interleaved step by
\* step, a step of one session leaves the other session's mode and cart as
\* they were.
SessionIsolation ==
    [][\A s \in SessionIds :
          (lastTool'.name = "session" /\ lastTool'.session # s)
              => ModeAndCart(s)' = ModeAndCart(s)]_vars

\* Session 1 is in CHECKOUT with a line in its cart, in the middle of a
\* turn, while session 2 is in INTENT with an empty cart after a step of
\* its own.
SessionIsolationWitness ==
    /\ lastTool = [name |-> "session", session |-> 2]
    /\ sessions[1] # NotConstructed
    /\ sessions[2] # NotConstructed
    /\ sessions[1].pc = "order"
    /\ sessions[2].pc = "route"
    /\ sessions[1]._state = CHECKOUT
    /\ sessions[2]._state = INTENT
    /\ heap[sessions[1]._cart] # <<>>
    /\ heap[sessions[2]._cart] = <<>>

====
